---- MODULE Spec2Model ----
(***************************************************************************)
(* Model of mail.py: the Mail.tm client (MailTmAPI), the JSON credential   *)
(* store (save_account_to_json / load_accounts_from_json) and the menu     *)
(* loop of main().                                                         *)
(*                                                                         *)
(* The remote service, the file system and the user are the environment:   *)
(* every remote call draws its response, every read and write of the       *)
(* backing file its I/O outcome, every prompt its input.                   *)
(***************************************************************************)
EXTENDS Integers, Sequences, FiniteSets, TLC

VARIABLES
    pc,                 \* position of main(): menu / an input() prompt / ended
    file,               \* the backing file mailtm_accounts.json
    choice,             \* main's local `choice`
    domains,            \* main's local `domains`
    account_data,       \* main's local `account_data`
    existing_accounts,  \* main's local `existing_accounts`
    account_index,      \* main's local `account_index`
    token,              \* main's local `token` (unbound until assigned, and after del)
    messages,           \* main's local `messages`
    io                  \* what this menu iteration read, called and printed, in order

vars == <<pc, file, choice, domains, account_data, existing_accounts,
          account_index, token, messages, io>>

(***************************************************************************)
(* Bounds of the model.                                                    *)
(***************************************************************************)
\* No account is created once the store holds this many records.
MaxAccounts == 2

(***************************************************************************)
(* Python values.  A call's result is a returned value, a returned None or *)
(* an exception that leaves the function.                                  *)
(***************************************************************************)
Return(v) == [kind |-> "return", val |-> v]

ReturnNone == [kind |-> "none"]

Raise(e) == [kind |-> "raise", exc |-> e]

\* A local variable of main: not yet assigned (or deleted), or bound to a value.
Unbound == [bound |-> FALSE]

Bound(v) == [bound |-> TRUE, val |-> v]

(***************************************************************************)
(* The text of the backing file, as a sequence of JSON tokens.  json.dump  *)
(* writes the token sequence of a list; json.load parses a token sequence  *)
(* and fails on anything that is not one complete JSON value.              *)
(***************************************************************************)
LB == [t |-> "["]

RB == [t |-> "]"]

Comma == [t |-> ","]

Obj(r) == [t |-> "obj", v |-> r]

Junk == [t |-> "junk"]

RECURSIVE DumpItems(_)
DumpItems(s) ==
    IF s = <<>> THEN <<>>
    ELSE IF Len(s) = 1 THEN <<Obj(s[1])>>
    ELSE <<Obj(s[1]), Comma>> \o DumpItems(Tail(s))

json_dump(accounts) == <<LB>> \o DumpItems(accounts) \o <<RB>>

JSONDecodeError == [kind |-> "error"]

\* Parses text[i..] as `obj (, obj)* ]` and nothing after it.
RECURSIVE ParseItems(_, _, _)
ParseItems(text, i, acc) ==
    IF i + 1 > Len(text) \/ text[i].t # "obj" THEN JSONDecodeError
    ELSE IF text[i + 1].t = "]"
         THEN IF i + 1 = Len(text)
              THEN [kind |-> "list", val |-> Append(acc, text[i].v)]
              ELSE JSONDecodeError
    ELSE IF text[i + 1].t = ","
         THEN ParseItems(text, i + 2, Append(acc, text[i].v))
    ELSE JSONDecodeError

json_load(text) ==
    IF text = <<>> THEN JSONDecodeError
    ELSE IF text[1].t = "obj"
         THEN IF Len(text) = 1 THEN [kind |-> "dict", val |-> text[1].v]
              ELSE JSONDecodeError
    ELSE IF text[1].t = "["
         THEN IF Len(text) >= 2 /\ text[2].t = "]"
              THEN IF Len(text) = 2 THEN [kind |-> "list", val |-> <<>>]
                   ELSE JSONDecodeError
              ELSE ParseItems(text, 2, <<>>)
    ELSE JSONDecodeError

(***************************************************************************)
(* The credential store.                                                   *)
(***************************************************************************)
NoFile == [exists |-> FALSE, text |-> <<>>]

FileOf(text) == [exists |-> TRUE, text |-> text]

\* Outcomes of opening and reading the file: it is read, or open/read raises OSError.
ReadOutcomes == {"ok", "oserror"}

\* load_accounts_from_json: the parsed JSON value, or [] on any failure.
load_accounts_from_json(f, rd) ==
    IF ~f.exists THEN [kind |-> "list", val |-> <<>>]
    ELSE IF rd # "ok" THEN [kind |-> "list", val |-> <<>>]
    ELSE LET accounts == json_load(f.text)
         IN  IF accounts.kind = "error" THEN [kind |-> "list", val |-> <<>>]
             ELSE accounts

\* What load_accounts_from_json prints ("": nothing).
LoadWarning(f, rd) ==
    IF ~f.exists THEN ""
    ELSE IF rd # "ok" THEN "Error loading accounts from JSON"
    ELSE IF json_load(f.text).kind = "error"
         THEN "Warning: JSON file is empty or corrupted."
    ELSE ""

\* Outcomes of the write: it completes, open(filename, 'w') raises, or the
\* write raises after open has truncated the file and n tokens reached it.
WriteOutcomes(text) ==
    {[step |-> "ok", n |-> Len(text)], [step |-> "open", n |-> 0]}
        \cup {[step |-> "write", n |-> k] : k \in 0..(Len(text) - 1)}

\* A plausible slip: the new account is put in front of the loaded ones.
AddAccountFirst(accounts, account) == <<account>> \o accounts

\* accounts.append(account_data)
AddAccount(accounts, account) == Append(accounts, account)

\* The text save_account_to_json is about to write (lines 121-122, 125).
SaveText(account, f, rd) ==
    json_dump(AddAccount(load_accounts_from_json(f, rd).val, account))

\* save_account_to_json: the file afterwards and what was printed, or the
\* exception that leaves it.
save_account_to_json(account, f, rd, wr) ==
    LET accounts == load_accounts_from_json(f, rd)
    IN  IF accounts.kind # "list"
        THEN [res |-> Raise("AttributeError"), file |-> f, msg |-> ""]
        ELSE LET text == SaveText(account, f, rd)
             IN  IF wr.step = "ok"
                 THEN [res |-> ReturnNone, file |-> FileOf(text),
                       msg |-> "Account saved"]
                 ELSE IF wr.step = "open"
                 THEN [res |-> ReturnNone, file |-> f,
                       msg |-> "Error saving account to JSON"]
                 ELSE [res |-> ReturnNone, file |-> FileOf(SubSeq(text, 1, wr.n)),
                       msg |-> "Error saving account to JSON"]

(***************************************************************************)
(* The remote service.  A response is no response at all (the connection   *)
(* failed or was dropped: requests raises ConnectionError before `response`*)
(* is assigned), or a status code with a JSON body (a body that is not     *)
(* JSON is left out).                                                      *)
(***************************************************************************)
Dropped == [conn |-> FALSE, status |-> 0, body |-> <<>>]

Http(status, body) == [conn |-> TRUE, status |-> status, body |-> body]

\* response.raise_for_status() raises HTTPError
HttpError(resp) == resp.status >= 400 /\ resp.status < 600

\* Bodies of GET /domains: the collection envelope, or JSON of another shape.
DomainLists == {<<>>, <<"x.io", "y.io">>}

Envelope(members) == "hydra:member" :> members

OtherShape == "detail" :> "unexpected"

DomainResponses ==
    {Dropped, Http(500, OtherShape), Http(200, OtherShape)}
        \cup {Http(200, Envelope([i \in 1..Len(ds) |-> [domain |-> ds[i]]])) :
                ds \in DomainLists}

\* Bodies of POST /accounts: the account object the service assigns.
AccountResponses ==
    {Dropped, Http(422, OtherShape), Http(500, OtherShape),
     Http(201, [id |-> "id1", address |-> "as-stored-by-service"])}

\* Bodies of POST /token.
ServerTokens == {"", "tkA"}

TokenResponses ==
    {Dropped, Http(401, OtherShape), Http(200, OtherShape)}
        \cup {Http(200, [token |-> t, id |-> "id1"]) : t \in ServerTokens}

\* Bodies of GET /messages.
Inboxes == {<<>>, <<[id |-> "m1"]>>}

MessagesResponses ==
    {Dropped, Http(401, OtherShape), Http(500, OtherShape), Http(200, OtherShape)}
        \cup {Http(200, Envelope(inbox)) : inbox \in Inboxes}

\* Bodies of GET /messages/{id}.
MessageResponses ==
    {Dropped, Http(401, OtherShape), Http(404, OtherShape),
     Http(200, [id |-> "m1", text |-> "hello"])}

\* Python truthiness of a dict: it has at least one key.
TruthyDict(d) == DOMAIN d # {}

\* MailTmAPI.get_domains
get_domains(resp) ==
    IF ~resp.conn \/ HttpError(resp) THEN ReturnNone
    ELSE IF "hydra:member" \notin DOMAIN resp.body THEN Raise("KeyError")
    ELSE LET members == resp.body["hydra:member"]
         IN  Return([i \in 1..Len(members) |-> members[i].domain])

\* MailTmAPI.get_token
get_token(address, password, resp) ==
    IF ~resp.conn \/ HttpError(resp) THEN ReturnNone
    ELSE Return(resp.body)

\* f"{username}@{domain}"
Address(username, domain) == username \o "@" \o domain

\* account_data['token'] = ...; account_data['address'] = address
WithTokenAndAddress(account, tok, address) ==
    [k \in DOMAIN account \cup {"token", "address"} |->
        IF k = "token" THEN tok
        ELSE IF k = "address" THEN address
        ELSE account[k]]

\* MailTmAPI.create_account
create_account(username, password, domain, resp, tokenResp) ==
    LET address == Address(username, domain)
    IN  IF ~resp.conn THEN Raise("UnboundLocalError")
        ELSE IF HttpError(resp) THEN ReturnNone
        ELSE LET token_response == get_token(address, password, tokenResp)
             IN  IF /\ token_response.kind = "return"
                    /\ TruthyDict(token_response.val)
                    /\ "token" \in DOMAIN token_response.val
                 THEN Return(WithTokenAndAddress(resp.body,
                                                 token_response.val["token"],
                                                 address))
                 ELSE ReturnNone

\* MailTmAPI.get_messages
get_messages(tok, resp) ==
    IF ~resp.conn THEN Raise("UnboundLocalError")
    ELSE IF HttpError(resp) THEN ReturnNone
    ELSE IF "hydra:member" \notin DOMAIN resp.body THEN Raise("KeyError")
    ELSE Return(resp.body["hydra:member"])

\* MailTmAPI.get_message_content
get_message_content(tok, message_id, resp) ==
    IF ~resp.conn THEN Raise("UnboundLocalError")
    ELSE IF HttpError(resp) THEN ReturnNone
    ELSE Return(resp.body)

(***************************************************************************)
(* main(): the menu loop.  One action per input() prompt, covering the     *)
(* code that runs from that prompt up to the next one; the message         *)
(* retrieval section shared by both branches is the step Retrieve.         *)
(* An exception that leaves main() ends the process (pc = "crashed").      *)
(* main() reads no local other than `token` before assigning it in the     *)
(* same iteration, so each menu choice starts with the others unbound.     *)
(***************************************************************************)
Input(v) == [op |-> "input", arg |-> v, status |-> 0, body |-> "", res |-> ""]

Printed(msg) == [op |-> "print", arg |-> msg, status |-> 0, body |-> "", res |-> ""]

\* The shape of a response body: none, the documented one, or another.
BodyShape(resp) ==
    IF ~resp.conn THEN "none"
    ELSE IF "detail" \in DOMAIN resp.body THEN "unexpected"
    ELSE "expected"

\* A remote call: its endpoint, the address or token it carried, the status
\* the service answered with (0: no response), the shape of the body and how
\* the method ended.
Call(op, arg, resp, r) ==
    [op |-> op, arg |-> arg, status |-> resp.status, body |-> BodyShape(resp),
     res |-> r.kind]

\* The warning of load_accounts_from_json, if it printed one.
LoadPrints(f, rd) ==
    IF LoadWarning(f, rd) = "" THEN <<>> ELSE <<Printed(LoadWarning(f, rd))>>

Traceback(r) == Printed("Traceback: " \o r.exc)

\* generate_random_username() / generate_strong_password()
Usernames == {"ann", "bob"}

Passwords == {"pw1"}

\* Records found in the file when the program starts.
LegacyNoToken == [id |-> "id0", address |-> "old@x.io"]

LegacyWithToken == [id |-> "id9", address |-> "kept@x.io", token |-> "tkOld"]

LegacyOther == [id |-> "id8", address |-> "more@y.io", token |-> "tkMore"]

InitFiles ==
    {NoFile, FileOf(<<>>), FileOf(<<Junk>>), FileOf(<<Obj(LegacyWithToken)>>),
     FileOf(json_dump(<<>>)),
     FileOf(json_dump(<<LegacyWithToken>>)),
     FileOf(json_dump(<<LegacyWithToken, LegacyNoToken, LegacyOther>>))}

\* Number of records a clean read of the file yields.
StoredCount(f) ==
    LET accounts == load_accounts_from_json(f, "ok")
    IN  IF accounts.kind = "list" THEN Len(accounts.val) ELSE 0

Init ==
    /\ pc = "menu"
    /\ file \in InitFiles
    /\ choice = Unbound
    /\ domains = Unbound
    /\ account_data = Unbound
    /\ existing_accounts = Unbound
    /\ account_index = Unbound
    /\ token = Unbound
    /\ messages = Unbound
    /\ io = <<>>

\* choice '1' up to the domain prompt
Choose1 ==
    \E resp \in DomainResponses :
        /\ pc = "menu"
        /\ StoredCount(file) < MaxAccounts
        /\ choice' = Bound("1")
        /\ LET r == get_domains(resp)
               ev == <<Input("1"), Call("GET /domains", "", resp, r)>>
           IN  IF r.kind = "raise"
               THEN /\ pc' = "crashed"
                    /\ io' = ev \o <<Traceback(r)>>
                    /\ UNCHANGED domains
               ELSE IF r.kind = "none" \/ r.val = <<>>
               THEN /\ pc' = "menu"
                    /\ io' = ev \o <<Printed("Failed to retrieve domains.")>>
                    /\ domains' = Bound(r)
               ELSE /\ pc' = "select_domain"
                    /\ io' = ev
                    /\ domains' = Bound(r)
        /\ account_data' = Unbound
        /\ existing_accounts' = Unbound
        /\ account_index' = Unbound
        /\ messages' = Unbound
        /\ UNCHANGED <<file, token>>

\* the domain prompt, account creation, saving, token = account_data['token']
SelectDomain ==
    /\ pc = "select_domain"
    /\ \E n \in 0..(Len(domains.val.val) + 1), username \in Usernames,
          password \in Passwords, resp \in AccountResponses,
          tokenResp \in TokenResponses, rd \in ReadOutcomes :
        /\ LET ds == domains.val.val
               idx == n - 1
           IN  IF ~(0 <= idx /\ idx < Len(ds))
               THEN /\ pc' = "menu"
                    /\ io' = io \o <<Input(ToString(n)),
                                     Printed("Invalid domain selection.")>>
                    /\ UNCHANGED <<file, account_data, token>>
               ELSE
               LET address == Address(username, ds[idx + 1])
                   r == create_account(username, password, ds[idx + 1], resp, tokenResp)
                   ev == io \o <<Input(ToString(n)),
                                 Printed("Generated Username: " \o username),
                                 Call("POST /accounts", address, resp, r)>>
                         \o (IF resp.conn /\ ~HttpError(resp)
                             THEN <<Call("POST /token", address, tokenResp,
                                         get_token(address, password, tokenResp))>>
                             ELSE <<>>)
               IN  IF r.kind = "raise"
                   THEN /\ pc' = "crashed"
                        /\ io' = ev \o <<Traceback(r)>>
                        /\ UNCHANGED <<file, account_data, token>>
                   ELSE IF r.kind = "none"
                   THEN /\ pc' = "menu"
                        /\ io' = ev \o <<Printed("Account creation failed.")>>
                        /\ account_data' = Bound(r)
                        /\ UNCHANGED <<file, token>>
                   ELSE IF load_accounts_from_json(file, rd).kind # "list"
                   THEN LET s == save_account_to_json(r.val, file, rd,
                                                      [step |-> "ok", n |-> 0])
                        IN  /\ pc' = "crashed"
                            /\ io' = ev \o <<Printed("Account Created Successfully!")>>
                                     \o LoadPrints(file, rd) \o <<Traceback(s.res)>>
                            /\ account_data' = Bound(r)
                            /\ UNCHANGED <<file, token>>
                   ELSE \E wr \in WriteOutcomes(SaveText(r.val, file, rd)) :
                        LET s == save_account_to_json(r.val, file, rd, wr)
                        IN  /\ pc' = "retrieve"
                            /\ io' = ev \o <<Printed("Account Created Successfully!")>>
                                     \o LoadPrints(file, rd) \o <<Printed(s.msg)>>
                            /\ account_data' = Bound(r)
                            /\ file' = s.file
                            /\ token' = Bound(r.val.token)
        /\ UNCHANGED <<choice, domains, existing_accounts, account_index, messages>>

\* the domain prompt answered with text that int() rejects
SelectDomainNotANumber ==
    /\ pc = "select_domain"
    /\ pc' = "crashed"
    /\ io' = io \o <<Input("abc"), Traceback(Raise("ValueError"))>>
    /\ UNCHANGED <<file, choice, domains, account_data, existing_accounts,
                   account_index, token, messages>>

\* choice '2' up to the account prompt
Choose2 ==
    \E rd \in ReadOutcomes :
        /\ pc = "menu"
        /\ choice' = Bound("2")
        /\ existing_accounts' = Bound(load_accounts_from_json(file, rd))
        /\ LET accounts == load_accounts_from_json(file, rd)
               ev == <<Input("2")>> \o LoadPrints(file, rd)
           IN  IF accounts.kind = "dict"
               THEN IF TruthyDict(accounts.val)
                    THEN \* enumerate() of a dict yields its keys: account['address']
                         /\ pc' = "crashed"
                         /\ io' = ev \o <<Traceback(Raise("TypeError"))>>
                    ELSE /\ pc' = "menu"
                         /\ io' = ev \o <<Printed("No accounts found.")>>
               ELSE IF accounts.val = <<>>
               THEN /\ pc' = "menu"
                    /\ io' = ev \o <<Printed("No accounts found.")>>
               ELSE /\ pc' = "select_account"
                    /\ io' = ev
        /\ domains' = Unbound
        /\ account_data' = Unbound
        /\ account_index' = Unbound
        /\ messages' = Unbound
        /\ UNCHANGED <<file, token>>

\* A plausible slip: the index is ignored and the first record is used.
FirstAccount(accounts, index) == accounts[1]

\* existing_accounts[account_index]
SelectedAccount(accounts, index) == accounts[index + 1]

\* the account prompt, token = selected_account['token']
SelectAccount ==
    /\ pc = "select_account"
    /\ \E n \in 0..(Len(existing_accounts.val.val) + 1) :
        /\ account_index' = Bound(n - 1)
        /\ LET accounts == existing_accounts.val.val
               idx == n - 1
           IN  IF ~(0 <= idx /\ idx < Len(accounts))
               THEN /\ pc' = "menu"
                    /\ io' = io \o <<Input(ToString(n)),
                                     Printed("Invalid account selection.")>>
                    /\ UNCHANGED token
               ELSE LET selected_account == SelectedAccount(accounts, idx)
                    IN  IF "token" \notin DOMAIN selected_account
                        THEN /\ pc' = "crashed"
                             /\ io' = io \o <<Input(ToString(n)),
                                              Traceback(Raise("KeyError"))>>
                             /\ UNCHANGED token
                        ELSE /\ pc' = "retrieve"
                             /\ io' = io \o <<Input(ToString(n)),
                                     Printed("Using account: " \o selected_account.address)>>
                             /\ token' = Bound(selected_account.token)
        /\ UNCHANGED <<file, choice, domains, account_data, existing_accounts, messages>>

\* the account prompt answered with text that int() rejects
SelectAccountNotANumber ==
    /\ pc = "select_account"
    /\ pc' = "crashed"
    /\ io' = io \o <<Input("abc"), Traceback(Raise("ValueError"))>>
    /\ UNCHANGED <<file, choice, domains, account_data, existing_accounts,
                   account_index, token, messages>>

\* choice '3'
Choose3 ==
    /\ pc = "menu"
    /\ pc' = "exited"
    /\ choice' = Bound("3")
    /\ io' = <<Input("3"), Printed("Exiting.")>>
    /\ domains' = Unbound
    /\ account_data' = Unbound
    /\ existing_accounts' = Unbound
    /\ account_index' = Unbound
    /\ messages' = Unbound
    /\ UNCHANGED <<file, token>>

\* any other choice
ChooseInvalid ==
    /\ pc = "menu"
    /\ pc' = "menu"
    /\ choice' = Bound("x")
    /\ io' = <<Input("x"), Printed("Invalid choice.")>>
    /\ domains' = Unbound
    /\ account_data' = Unbound
    /\ existing_accounts' = Unbound
    /\ account_index' = Unbound
    /\ messages' = Unbound
    /\ UNCHANGED <<file, token>>

\* if 'token' in locals() and token
TokenUsable(tok) == tok.bound /\ tok.val # ""

\* the message retrieval section up to the message-id prompt
Retrieve ==
    \E resp \in MessagesResponses :
        /\ pc = "retrieve"
        /\ IF ~TokenUsable(token)
           THEN /\ pc' = "menu"
                /\ UNCHANGED <<token, messages, io>>
           ELSE LET r == get_messages(token.val, resp)
                    ev == io \o <<Call("GET /messages", token.val, resp, r)>>
                IN  IF r.kind = "raise"
                    THEN /\ pc' = "crashed"
                         /\ io' = ev \o <<Traceback(r)>>
                         /\ UNCHANGED <<token, messages>>
                    ELSE IF r.kind = "none"
                    THEN /\ pc' = "menu"
                         /\ io' = ev \o <<Printed("Failed to retrieve message list.")>>
                         /\ messages' = Bound(r)
                         /\ token' = Unbound
                    ELSE IF r.val = <<>>
                    THEN /\ pc' = "menu"
                         /\ io' = ev \o <<Printed("No messages found in your inbox yet.")>>
                         /\ messages' = Bound(r)
                         /\ token' = Unbound
                    ELSE /\ pc' = "view"
                         /\ io' = ev
                         /\ messages' = Bound(r)
                         /\ UNCHANGED token
        /\ UNCHANGED <<file, choice, domains, account_data, existing_accounts,
                       account_index>>

\* What the user types at the message-id prompt ("": Enter, skip).
MessageIds == {"", "m1"}

\* the message-id prompt, get_message_content, del token
ViewMessage ==
    \E view_message \in MessageIds, resp \in MessageResponses :
        /\ pc = "view"
        /\ IF view_message = ""
           THEN /\ pc' = "menu"
                /\ io' = io \o <<Input(view_message)>>
                /\ token' = Unbound
           ELSE LET r == get_message_content(token.val, view_message, resp)
                    ev == io \o <<Input(view_message),
                                  Call("GET /messages/{id}", token.val, resp, r)>>
                IN  IF r.kind = "raise"
                    THEN /\ pc' = "crashed"
                         /\ io' = ev \o <<Traceback(r)>>
                         /\ UNCHANGED token
                    ELSE /\ pc' = "menu"
                         /\ io' = ev \o <<Printed(IF r.kind = "none"
                                                THEN "Failed to retrieve full message content."
                                                ELSE "--- Message Content ---")>>
                         /\ token' = Unbound
        /\ UNCHANGED <<file, choice, domains, account_data, existing_accounts,
                       account_index, messages>>

Next ==
    \/ Choose1
    \/ SelectDomain
    \/ SelectDomainNotANumber
    \/ Choose2
    \/ SelectAccount
    \/ SelectAccountNotANumber
    \/ Choose3
    \/ ChooseInvalid
    \/ Retrieve
    \/ ViewMessage

Spec == Init /\ [][Next]_vars

(***************************************************************************)
(* Vocabulary of the properties.                                           *)
(***************************************************************************)
Events(op) == {i \in DOMAIN io : io[i].op = op}

MessageCalls == Events("GET /messages") \cup Events("GET /messages/{id}")

HasPrinted(log, msg) == \E i \in DOMAIN log : log[i] = Printed(msg)

\* What a clean read of the file yields: the stored sequence.
Stored(f) == load_accounts_from_json(f, "ok")

\* This iteration's create_account returned a record.
Created == account_data.bound /\ account_data.val.kind = "return"

\* This iteration's account prompt got an index of the loaded list.
Selected ==
    /\ existing_accounts.bound
    /\ existing_accounts.val.kind = "list"
    /\ account_index.bound
    /\ 0 <= account_index.val
    /\ account_index.val < Len(existing_accounts.val.val)

SelectedRecord == existing_accounts.val.val[account_index.val + 1]

\* The record returned by this iteration's create_account.
CreatedRecord == account_data.val.val

(***************************************************************************)
(* C1: create_account returns a record whose address is                    *)
(* username + "@" + domain and whose token is non-empty, or returns None;  *)
(* it never raises and never returns a record with a missing or empty      *)
(* token.  Stated on every POST /accounts call of main: the call ended in  *)
(* a return, and a returned record has that address and a non-empty token. *)
(***************************************************************************)
C1_RecordWithTokenOrNone ==
    \A i \in Events("POST /accounts") :
        /\ io[i].res \in {"none", "return"}
        /\ io[i].res = "return" =>
              /\ "token" \in DOMAIN CreatedRecord
              /\ CreatedRecord.token # ""
              /\ \E u \in Usernames, k \in DOMAIN domains.val.val :
                    /\ HasPrinted(io, "Generated Username: " \o u)
                    /\ CreatedRecord.address = u \o "@" \o domains.val.val[k]

(***************************************************************************)
(* C2: every failure of a remote call (no response, a non-2xx status, a    *)
(* body of unexpected shape) ends the client method with a returned None;  *)
(* no exception leaves the method.                                         *)
(***************************************************************************)
RemoteOps ==
    {"GET /domains", "POST /accounts", "POST /token", "GET /messages",
     "GET /messages/{id}"}

C2_RemoteFailuresReturnNone ==
    \A i \in DOMAIN io :
        (/\ io[i].op \in RemoteOps
         /\ \/ io[i].status = 0
            \/ io[i].status >= 400
            \/ io[i].body = "unexpected")
        => io[i].res = "none"

(***************************************************************************)
(* C3: when the write of save_account_to_json fails ("Error saving account *)
(* to JSON" is printed), the next load returns the records that were       *)
(* stored before the append began.  Stated for the saves whose read of the *)
(* file did not fail, so that the write is the only failure.               *)
(***************************************************************************)
SaveFailedStep ==
    /\ pc = "select_domain"
    /\ HasPrinted(io', "Error saving account to JSON")
    /\ ~HasPrinted(io', "Error loading accounts from JSON")

C3_FailedWriteKeepsStore == [][SaveFailedStep => Stored(file') = Stored(file)]_vars

(***************************************************************************)
(* C4: when the account prompt selects a stored record without a token     *)
(* field, main does not crash, get_token is called before any message      *)
(* call, and a failed get_token leaves no message call.                    *)
(***************************************************************************)
TokenlessSelected == Selected /\ "token" \notin DOMAIN SelectedRecord

C4_TokenlessRecordReauthenticates ==
    (TokenlessSelected /\ pc # "select_account") =>
        /\ pc # "crashed"
        /\ \E i \in Events("POST /token") :
              /\ \A j \in MessageCalls : i < j
              /\ io[i].res = "none" => MessageCalls = {}

(***************************************************************************)
(* C5: a save_account_to_json(r) that read the store and completed its     *)
(* write, followed by a load, yields the previously loaded sequence with r *)
(* appended as its last element.                                           *)
(***************************************************************************)
SavedStep ==
    /\ pc = "select_domain"
    /\ HasPrinted(io', "Account saved")
    /\ ~HasPrinted(io', "Error loading accounts from JSON")

C5_AppendThenLoad ==
    [][SavedStep =>
        /\ Stored(file).kind = "list"
        /\ Stored(file').kind = "list"
        /\ Stored(file').val = Append(Stored(file).val, account_data'.val.val)]_vars

C5_Witness ==
    /\ pc = "retrieve"
    /\ HasPrinted(io, "Account saved")
    /\ ~HasPrinted(io, "Error loading accounts from JSON")
    /\ Stored(file).kind = "list"
    /\ Len(Stored(file).val) = 2
    /\ Stored(file).val[2] = CreatedRecord
    /\ Stored(file).val[1] # CreatedRecord

(***************************************************************************)
(* C6: load_accounts_from_json never raises, returns an empty sequence for *)
(* a missing, empty, unparseable or unreadable file, and always returns a  *)
(* sequence of records.  Stated on the value main binds to                 *)
(* existing_accounts.                                                      *)
(***************************************************************************)
C6_LoadReturnsSequence ==
    existing_accounts.bound =>
        /\ existing_accounts.val.kind = "list"
        /\ (\/ ~file.exists
            \/ json_load(file.text).kind = "error"
            \/ HasPrinted(io, "Error loading accounts from JSON"))
           => existing_accounts.val.val = <<>>

(***************************************************************************)
(* C7: after create_account succeeded, save_account_to_json returns        *)
(* without raising whatever the backing file holds, and main goes on to    *)
(* list the new account's messages with its token.                         *)
(***************************************************************************)
C7_StorageNeverBlocksCreation ==
    Created =>
        /\ ~HasPrinted(io, "Traceback: AttributeError")
        /\ (pc # "retrieve" /\ CreatedRecord.token # "") =>
              \E i \in Events("GET /messages") : io[i].arg = CreatedRecord.token

(***************************************************************************)
(* C8: get_messages on a token rejected with HTTP 401 returns a value that *)
(* differs from the value it returns on a network failure (a dropped       *)
(* connection, an unexpected status).                                      *)
(***************************************************************************)
NetworkFailures == {Dropped, Http(500, OtherShape)}

C8_AuthFailureDistinguishable ==
    \A i \in Events("GET /messages") :
        io[i].status = 401 =>
            \A n \in NetworkFailures :
                LET auth == get_messages(io[i].arg, Http(401, OtherShape))
                    net == get_messages(io[i].arg, n)
                IN  /\ auth.kind # "raise"
                    /\ net.kind # "raise"
                    /\ auth # net

(***************************************************************************)
(* C9: the stored sequence changes only by one record being appended at    *)
(* the end of a successful account creation; every other step leaves it    *)
(* unchanged, and no record is deleted, edited or reordered.  Stated for   *)
(* the steps in which no read of the file failed.                          *)
(***************************************************************************)
CreationStep == pc = "select_domain" /\ pc' = "retrieve"

C9_StoreOnlyAppends ==
    [][\/ HasPrinted(io', "Error loading accounts from JSON")
       \/ Stored(file') = Stored(file)
       \/ /\ CreationStep
          /\ Stored(file).kind = "list"
          /\ Stored(file').kind = "list"
          /\ Stored(file').val = Append(Stored(file).val, account_data'.val.val)]_vars

(***************************************************************************)
(* C10: every message call of a menu iteration carries the token of the    *)
(* account that this iteration created or selected, and at every return to *)
(* the menu no usable token is left bound, so a failed creation or         *)
(* selection issues no message call and no earlier token is reused.        *)
(***************************************************************************)
C10_MessageCallsUseCurrentToken ==
    /\ \A i \in MessageCalls :
          \/ /\ choice = Bound("1")
             /\ Created
             /\ \E j \in Events("POST /token") : j < i /\ io[j].res = "return"
             /\ io[i].arg = CreatedRecord.token
          \/ /\ choice = Bound("2")
             /\ Selected
             /\ "token" \in DOMAIN SelectedRecord
             /\ io[i].arg = SelectedRecord.token
    /\ pc = "menu" => ~TokenUsable(token)

C10_Witness ==
    /\ pc = "view"
    /\ choice = Bound("2")
    /\ Selected
    /\ account_index.val >= 1
    /\ \E i \in Events("GET /messages") : io[i].arg = SelectedRecord.token
    /\ SelectedRecord.token # existing_accounts.val.val[1].token

====
